---- MODULE Spec2Model ----
(***************************************************************************)
(* FoodFlow AI: the surplus cascade (models/waste_cascade.py), the carbon  *)
(* accounting (models/carbon_calculator.py) and the route optimizer        *)
(* (models/route_optimizer.py), as one state machine over the database     *)
(* tables they read and append to.                                         *)
(*                                                                         *)
(* Numbers.  The source computes in binary floating point.  Here every     *)
(* quantity is a fixed-point integer:                                      *)
(*   weights      in 1/KG kg          (KG = 10000 units per kg)            *)
(*   CO2          in 1/100 kg         (what round(x, 2) keeps)             *)
(*   money        in 1/100 currency   (what round(x, 2) keeps)             *)
(*   distances    in km                                                    *)
(* round(x, n) is round-half-to-even, as Python's.  Locations lie on one   *)
(* meridian; a location's pos is its arc length in km along it, so the     *)
(* haversine distance of two locations is |pos1 - pos2| exactly.           *)
(***************************************************************************)
EXTENDS Integers, Sequences, FiniteSets, TLC

\* ---------------------------------------------------------------- bounds
MaxItems == 2          \* inventory rows in the latest snapshot
MaxVehicles == 2       \* num_vehicles ranges over 1..MaxVehicles
MaxSaves == 1          \* cascade endpoint calls, and routing runs up to save_routes, followed
MaxActionSaves == 2    \* save_actions calls followed

\* ------------------------------------------------------------- numerics
KG == 10000

Min(a, b) == IF a < b THEN a ELSE b
Max(a, b) == IF a > b THEN a ELSE b
Abs(a) == IF a < 0 THEN 0 - a ELSE a

\* base + rem/d with 0 <= rem < d, rounded half to even
RoundParts(base, rem, d) ==
    IF 2 * rem > d THEN base + 1
    ELSE IF 2 * rem < d THEN base
    ELSE IF base % 2 = 0 THEN base ELSE base + 1

\* n / d rounded half to even
RoundDiv(n, d) == RoundParts(n \div d, n % d, d)

\* x * m / d rounded half to even, without forming x * m
MulDivRound(x, m, d) ==
    LET a == x \div d
        b == x % d
        n == m * b
    IN  RoundParts(m * a + (n \div d), n % d, d)

\* round(x, 1) of a weight, as a weight
round1(x) == RoundDiv(x, KG \div 10) * (KG \div 10)

\* floor(s * 10^4 / c) by long division (s, c >= 0, c > 0)
RatioE4(s, c) ==
    LET q0 == s \div c
        r0 == s % c
        d1 == (r0 * 10) \div c
        r1 == (r0 * 10) % c
        d2 == (r1 * 10) \div c
        r2 == (r1 * 10) % c
        d3 == (r2 * 10) \div c
        r3 == (r2 * 10) % c
        d4 == (r3 * 10) \div c
    IN  q0 * 10000 + d1 * 1000 + d2 * 100 + d3 * 10 + d4

RECURSIVE SumSeq(_)
SumSeq(s) == IF s = <<>> THEN 0 ELSE Head(s) + SumSeq(Tail(s))

\* all orderings of the finite set S
Orderings(S) ==
    LET n == Cardinality(S)
    IN  {f \in [1..n -> S] : \A i, j \in 1..n : i # j => f[i] # f[j]}

\* ------------------------------------------------------- carbon factors
\* kg CO2 per kg of food, in tenths
CARBON_FACTORS(category) ==
    CASE category = "Fruits" -> 9
      [] category = "Vegetables" -> 7
      [] category = "Dairy" -> 55
      [] category = "Meat" -> 180
      [] category = "Seafood" -> 85
      [] category = "Bakery" -> 12
      [] category = "Beverages" -> 8
      [] category = "Pantry" -> 10
      [] category = "Frozen" -> 25
      [] category = "Snacks" -> 18
      [] category = "Deli" -> 30
      [] category = "Baby" -> 20
      [] OTHER -> 15

\* in tenths of kg CO2 per kg
LANDFILL_EMISSION_PER_KG == 25
COMPOST_EMISSION_PER_KG == 3

\* the production emissions alone, without the landfill avoided
calculate_food_saved_carbon_ProductionOnly(category, quantity_kg) ==
    MulDivRound(quantity_kg, CARBON_FACTORS(category), (KG \div 100) * 10)

\* round(production + landfill, 2), in 1/100 kg CO2
calculate_food_saved_carbon(category, quantity_kg) ==
    MulDivRound(quantity_kg, CARBON_FACTORS(category) + LANDFILL_EMISSION_PER_KG,
                (KG \div 100) * 10)

\* round(saved - 0.1 * distance_km * (quantity_kg / 1000), 2)
calculate_redistribution_carbon(category, quantity_kg, distance_km) ==
    LET saved == calculate_food_saved_carbon(category, quantity_kg)
        den == KG * 100                 \* transport, in 1/100 kg CO2, is t / den
        h == 1000                       \* den = h * h
        a == quantity_kg \div den
        b == quantity_kg % den
        \* distance_km * b = h * w + v0, formed without the product itself
        w == distance_km * (b \div h) + ((distance_km * (b % h)) \div h)
        v0 == (distance_km * (b % h)) % h
        tq == distance_km * a + (w \div h)
        tr == (w % h) * h + v0
    IN  IF tr = 0 THEN saved - tq
        ELSE RoundParts(saved - tq - 1, den - tr, den)

\* round((landfill - compost) * quantity_kg, 2)
calculate_composting_carbon(quantity_kg) ==
    MulDivRound(quantity_kg, LANDFILL_EMISSION_PER_KG - COMPOST_EMISSION_PER_KG,
                (KG \div 100) * 10)

\* great-circle distance of two points of one meridian, km
haversine_distance(pos1, pos2) == Abs(pos2 - pos1)

\* ------------------------------------------------------ database content
Store(id, nm, type, c, p) ==
    [store_id |-> id, name |-> nm, store_type |-> type, city |-> c, pos |-> p]

\* the stores table, in row order, of each deployment considered
StdCity ==
    << Store(1, "R1", "retailer", "A", 0), Store(2, "R2", "retailer", "A", 10),
       Store(3, "FB1", "food_bank", "A", 5), Store(4, "CF1", "compost_facility", "A", 8),
       Store(5, "WH", "warehouse", "A", 2) >>
NoCompost ==
    << Store(1, "R1", "retailer", "A", 0), Store(2, "R2", "retailer", "A", 10),
       Store(3, "FB1", "food_bank", "A", 5) >>
BankDepot ==
    << Store(3, "FB1", "food_bank", "A", 100), Store(1, "R1", "retailer", "A", 0),
       Store(4, "CF1", "compost_facility", "A", 200) >>
FarBank ==
    << Store(1, "R1", "retailer", "A", 0), Store(6, "FB2", "food_bank", "B", 310),
       Store(7, "CF2", "compost_facility", "B", 300), Store(5, "WH", "warehouse", "A", 2) >>
Wide ==
    << Store(1, "R1", "retailer", "A", 0), Store(8, "R3", "retailer", "A", 60),
       Store(9, "R4", "retailer", "B", 3), Store(10, "CF3", "compost_facility", "A", 30),
       Store(4, "CF1", "compost_facility", "A", 8) >>
NoStores == << >>

StoreTables == {StdCity, NoCompost, BankDepot, FarBank, Wide, NoStores}

\* the products table
Products ==
    { [product_id |-> 1, name |-> "Milk", category |-> "Dairy", unit_cost |-> 100,
       unit_price |-> 200, is_perishable |-> 1, avg_daily_demand |-> 2 * KG,
       carbon_footprint_kg |-> 32],
      [product_id |-> 2, name |-> "Rice", category |-> "Pantry", unit_cost |-> 80,
       unit_price |-> 150, is_perishable |-> 0, avg_daily_demand |-> 3 * KG,
       carbon_footprint_kg |-> 27],
      [product_id |-> 3, name |-> "Lettuce", category |-> "Vegetables", unit_cost |-> 25,
       unit_price |-> 50, is_perishable |-> 1, avg_daily_demand |-> 1 * KG,
       carbon_footprint_kg |-> 5] }

NoForecast == 0 - 1

Inv(s, p, q, d, f, pd) ==
    [store_id |-> s, product_id |-> p, quantity_on_hand |-> q, days_until_expiry |-> d,
     freshness_score |-> f, predicted_demand |-> pd]

\* inventory rows of the latest snapshot date; freshness in 1/100
InventoryPool ==
    { Inv(1, 1, 100 * KG, 5, 40, 0),
      Inv(1, 3, 76 * (KG \div 10), 5, 80, 0),
      Inv(2, 1, 20 * KG, 1, 10, NoForecast),
      Inv(2, 3, 6 * KG, 0, 0, 0),
      Inv(1, 3, 20005 * (KG \div 10), 2, 30, NoForecast),
      Inv(2, 3, 904 * (KG \div 100), 4, 50, 3 * KG),
      Inv(3, 1, 50 * KG, 5, 50, 0),
      Inv(1, 2, 50 * KG, 9, 90, 0) }

\* (date, store_id, product_id) is the primary key of inventory
Snapshots ==
    { S \in SUBSET InventoryPool :
        /\ Cardinality(S) <= MaxItems
        /\ \A x, y \in S : (x.store_id = y.store_id /\ x.product_id = y.product_id) => x = y }

Rows(table) == {table[i] : i \in 1..Len(table)}

\* ------------------------------------------------------ identify_surplus
\* the SELECT row without the override that makes the whole stock of an
\* expiring item its surplus
SurplusRow_NoOverride(i, p, st, forecast_days) ==
    LET daily_demand == IF i.predicted_demand = NoForecast
                        THEN p.avg_daily_demand ELSE i.predicted_demand
        expected_demand == daily_demand * forecast_days
    IN  [store_id |-> i.store_id, product_id |-> i.product_id, product_name |-> p.name,
         category |-> p.category, unit_cost |-> p.unit_cost, unit_price |-> p.unit_price,
         carbon_footprint_kg |-> p.carbon_footprint_kg,
         store_name |-> st.name, city |-> st.city, pos |-> st.pos,
         quantity_on_hand |-> i.quantity_on_hand,
         days_until_expiry |-> i.days_until_expiry,
         freshness_score |-> i.freshness_score, daily_demand |-> daily_demand,
         expected_demand |-> expected_demand,
         surplus_qty |-> i.quantity_on_hand - expected_demand,
         is_expiring_soon |-> i.days_until_expiry <= 2]

\* one row of the SELECT, with the columns computed from it
SurplusRow(i, p, st, forecast_days) ==
    LET daily_demand == IF i.predicted_demand = NoForecast
                        THEN p.avg_daily_demand ELSE i.predicted_demand
        expected_demand == daily_demand * forecast_days
        is_expiring_soon == i.days_until_expiry <= 2
        surplus_qty == IF is_expiring_soon THEN i.quantity_on_hand
                       ELSE i.quantity_on_hand - expected_demand
    IN  [store_id |-> i.store_id, product_id |-> i.product_id, product_name |-> p.name,
         category |-> p.category, unit_cost |-> p.unit_cost, unit_price |-> p.unit_price,
         carbon_footprint_kg |-> p.carbon_footprint_kg,
         store_name |-> st.name, city |-> st.city, pos |-> st.pos,
         quantity_on_hand |-> i.quantity_on_hand,
         days_until_expiry |-> i.days_until_expiry,
         freshness_score |-> i.freshness_score, daily_demand |-> daily_demand,
         expected_demand |-> expected_demand, surplus_qty |-> surplus_qty,
         is_expiring_soon |-> is_expiring_soon]

\* the joined rows: retailer stores and perishable products only
SurplusQuery(inventory, table, forecast_days) ==
    { SurplusRow(i, p, st, forecast_days) :
        <<i, p, st>> \in
          { t \in inventory \X Products \X Rows(table) :
              /\ t[1].product_id = t[2].product_id
              /\ t[1].store_id = t[3].store_id
              /\ t[3].store_type = "retailer"
              /\ t[2].is_perishable = 1 } }

\* a filter that keeps every item with any surplus at all
KeepSurplus_AnySurplus(r) ==
    \/ r.surplus_qty > 0
    \/ (r.is_expiring_soon /\ r.quantity_on_hand > 5 * KG)

\* keep items with meaningful surplus or expiring soon
KeepSurplus(r) ==
    \/ r.surplus_qty > 5 * KG
    \/ (r.is_expiring_soon /\ r.quantity_on_hand > 5 * KG)

\* the urgency column, in 1/10000
Urgency(r) ==
    (100 - r.freshness_score) * 4000
    + RatioE4(r.surplus_qty, Max(r.quantity_on_hand, 1 * KG)) * 30
    + r.carbon_footprint_kg * 10000
    + (IF r.is_expiring_soon THEN 200000 ELSE 0)

\* sort_values("urgency", ascending=False): any order that is descending in urgency
SortByUrgency(S) ==
    { o \in Orderings(S) :
        \A a, b \in 1..Cardinality(S) : a < b => Urgency(o[a]) >= Urgency(o[b]) }

\* what identify_surplus can return; found = FALSE is the early return, which
\* leaves self.surplus_items as it was
identify_surplus(inventory, table, forecast_days) ==
    LET surplus_df == SurplusQuery(inventory, table, forecast_days)
    IN  IF surplus_df = {}
        THEN { [found |-> FALSE, surplus |-> << >>] }
        ELSE { [found |-> TRUE, surplus |-> o] :
                 o \in SortByUrgency({r \in surplus_df : KeepSurplus(r)}) }

\* ------------------------------------------------------ optimize_cascade
\* The loop state of one run: the actions appended so far, the tier totals
\* (unrounded weights), the totals of carbon (1/100 kg) and of cost (in
\* 1/(2*KG) of 1/100 currency, unrounded), and the remaining surplus of the
\* item being processed.
NewRun ==
    [actions |-> << >>, tier_stats |-> <<0, 0, 0>>, total_carbon_saved |-> 0,
     total_cost_saved |-> 0, remaining_surplus |-> 0]

\* the dict appended to actions; transfer_qty is no key of the dict: it is the
\* unrounded weight the loop holds when it appends
CascadeAction(item, dest, transfer_qty, tier, carbon, cost, dist) ==
    [source_store_id |-> item.store_id, destination_store_id |-> dest.store_id,
     product_id |-> item.product_id, product_name |-> item.product_name,
     category |-> item.category, quantity_kg |-> round1(transfer_qty),
     cascade_tier |-> tier, carbon_saved_kg |-> carbon,
     cost_saved |-> RoundDiv(cost, 2 * KG), distance_km |-> dist,
     source_name |-> item.store_name, destination_name |-> dest.name,
     transfer_qty |-> transfer_qty]

\* an append that forgets to take the transfer off the remaining surplus
Append_action_KeepRemaining(run, item, dest, transfer_qty, tier, carbon, cost, dist) ==
    [actions |-> Append(run.actions,
                        CascadeAction(item, dest, transfer_qty, tier, carbon, cost, dist)),
     tier_stats |-> [run.tier_stats EXCEPT ![tier] = @ + transfer_qty],
     total_carbon_saved |-> run.total_carbon_saved + carbon,
     total_cost_saved |-> run.total_cost_saved + cost,
     remaining_surplus |-> run.remaining_surplus]

\* actions.append(...) and the updates of the running totals that follow it;
\* tier 3 leaves remaining_surplus alone
Append_action(run, item, dest, transfer_qty, tier, carbon, cost, dist) ==
    [actions |-> Append(run.actions,
                        CascadeAction(item, dest, transfer_qty, tier, carbon, cost, dist)),
     tier_stats |-> [run.tier_stats EXCEPT ![tier] = @ + transfer_qty],
     total_carbon_saved |-> run.total_carbon_saved + carbon,
     total_cost_saved |-> run.total_cost_saved + cost,
     remaining_surplus |-> IF tier = 3 THEN run.remaining_surplus
                           ELSE run.remaining_surplus - transfer_qty]

OfType(table, type) == SelectSeq(table, LAMBDA s : s.store_type = type)
InCity(table, c) == SelectSeq(table, LAMBDA s : s.city = c)

\* a tier-1 loop that does not compare the retailer's city with the item's
RECURSIVE Tier1Loop_AnyCity(_, _, _, _, _)
Tier1Loop_AnyCity(item, retailers, k, run, max_redistribution_distance_km) ==
    IF k > Len(retailers) THEN run
    ELSE
      LET retailer == retailers[k]
          dist == haversine_distance(item.pos, retailer.pos)
          transfer_qty == Min(MulDivRound(run.remaining_surplus, 3, 10),
                              run.remaining_surplus)
          skip == \/ retailer.store_id = item.store_id
                  \/ dist > max_redistribution_distance_km
                  \/ transfer_qty < 2 * KG
          carbon == calculate_redistribution_carbon(item.category, transfer_qty, dist)
          cost == transfer_qty * item.unit_price
          next == Append_action(run, item, retailer, transfer_qty, 1, carbon, cost, dist)
      IN  IF skip
          THEN Tier1Loop_AnyCity(item, retailers, k + 1, run,
                                 max_redistribution_distance_km)
          ELSE IF next.remaining_surplus < 2 * KG THEN next
          ELSE Tier1Loop_AnyCity(item, retailers, k + 1, next,
                                 max_redistribution_distance_km)

\* TIER 1: the loop over retailers, from row k on
RECURSIVE Tier1Loop(_, _, _, _, _)
Tier1Loop(item, retailers, k, run, max_redistribution_distance_km) ==
    IF k > Len(retailers) THEN run
    ELSE
      LET retailer == retailers[k]
          dist == haversine_distance(item.pos, retailer.pos)
          transfer_qty == Min(MulDivRound(run.remaining_surplus, 3, 10),
                              run.remaining_surplus)
          skip == \/ retailer.store_id = item.store_id
                  \/ retailer.city # item.city
                  \/ dist > max_redistribution_distance_km
                  \/ transfer_qty < 2 * KG
          carbon == calculate_redistribution_carbon(item.category, transfer_qty, dist)
          cost == transfer_qty * item.unit_price
          next == Append_action(run, item, retailer, transfer_qty, 1, carbon, cost, dist)
      IN  IF skip
          THEN Tier1Loop(item, retailers, k + 1, run, max_redistribution_distance_km)
          ELSE IF next.remaining_surplus < 2 * KG THEN next
          ELSE Tier1Loop(item, retailers, k + 1, next, max_redistribution_distance_km)

\* tier 1 offered to every item, expiring or not
Tier1_AnyItem(item, retailers, run, max_redistribution_distance_km) ==
    Tier1Loop(item, retailers, 1, run, max_redistribution_distance_km)

\* TIER 1 is entered only for items that are not expiring soon
Tier1(item, retailers, run, max_redistribution_distance_km) ==
    IF ~item.is_expiring_soon
    THEN Tier1Loop(item, retailers, 1, run, max_redistribution_distance_km)
    ELSE run

\* TIER 2: the loop over city_banks, from row k on; it ends at the first transfer
RECURSIVE Tier2Loop(_, _, _, _)
Tier2Loop(item, city_banks, k, run) ==
    IF k > Len(city_banks) THEN run
    ELSE
      LET bank == city_banks[k]
          dist == haversine_distance(item.pos, bank.pos)
          transfer_qty == Min(MulDivRound(run.remaining_surplus, 8, 10),
                              run.remaining_surplus)
          carbon == calculate_redistribution_carbon(item.category, transfer_qty, dist)
          cost == 2 * transfer_qty * item.unit_cost
      IN  IF transfer_qty < 1 * KG
          THEN Tier2Loop(item, city_banks, k + 1, run)
          ELSE Append_action(run, item, bank, transfer_qty, 2, carbon, cost, dist)

\* tier 2 offered whatever shelf life is left
Tier2_AnyDay(item, food_banks, run) ==
    IF run.remaining_surplus > 0
    THEN LET here == InCity(food_banks, item.city)
             city_banks == IF Len(here) = 0 THEN food_banks ELSE here
         IN  Tier2Loop(item, city_banks, 1, run)
    ELSE run

\* TIER 2 is entered when surplus remains and the item has a day or more left
Tier2(item, food_banks, run) ==
    IF run.remaining_surplus > 0 /\ item.days_until_expiry >= 1
    THEN LET here == InCity(food_banks, item.city)
             city_banks == IF Len(here) = 0 THEN food_banks ELSE here
         IN  Tier2Loop(item, city_banks, 1, run)
    ELSE run

\* TIER 3: the first compost facility of the city, or of any city
Tier3(item, compost, run) ==
    IF run.remaining_surplus > 0
    THEN LET here == InCity(compost, item.city)
             city_compost == IF Len(here) = 0 THEN compost ELSE here
         IN  IF Len(city_compost) > 0
             THEN LET comp == city_compost[1]
                      dist == haversine_distance(item.pos, comp.pos)
                      carbon == calculate_composting_carbon(run.remaining_surplus)
                  IN  Append_action(run, item, comp, run.remaining_surplus, 3,
                                    carbon, 0, dist)
             ELSE run
    ELSE run

\* the body of the loop over surplus_items, for one item
CascadeItem(item, table, run, max_redistribution_distance_km) ==
    LET start == [run EXCEPT !.remaining_surplus = item.surplus_qty]
    IN  IF item.surplus_qty <= 0 THEN run
        ELSE Tier3(item, OfType(table, "compost_facility"),
               Tier2(item, OfType(table, "food_bank"),
                 Tier1(item, OfType(table, "retailer"), start,
                       max_redistribution_distance_km)))

\* the loop over surplus_items, from item k on
RECURSIVE CascadeLoop(_, _, _, _, _)
CascadeLoop(items, table, k, run, max_redistribution_distance_km) ==
    IF k > Len(items) THEN run
    ELSE CascadeLoop(items, table, k + 1,
                     CascadeItem(items[k], table, run, max_redistribution_distance_km),
                     max_redistribution_distance_km)

\* self.summary of a finished run
CascadeSummary(run) ==
    [total_actions |-> Len(run.actions),
     tier_1_kg |-> round1(run.tier_stats[1]),
     tier_2_kg |-> round1(run.tier_stats[2]),
     tier_3_kg |-> round1(run.tier_stats[3]),
     total_redistributed_kg |->
         round1(run.tier_stats[1] + run.tier_stats[2] + run.tier_stats[3]),
     total_carbon_saved_kg |-> RoundDiv(run.total_carbon_saved, 10) * 10,
     total_cost_saved |-> RoundDiv(run.total_cost_saved, 2 * KG)]

\* ------------------------------------------------------------- the state
VARIABLES
    db_stores,              \* table stores, in row order
    db_inventory,           \* table inventory, rows of the latest date
    waste_cascade_actions,  \* table waste_cascade_actions, in insertion order
    carbon_impact,          \* table carbon_impact, in insertion order
    db_routes,              \* table routes, in insertion order
    ORTOOLS_AVAILABLE,      \* whether the import of OR-Tools succeeded
    stores,                 \* WasteCascadeOptimizer.stores (loaded = FALSE: None)
    surplus_items,          \* WasteCascadeOptimizer.surplus_items
    actions,                \* WasteCascadeOptimizer.actions
    summary,                \* WasteCascadeOptimizer.summary ({}: the empty dict)
    r_stores,               \* RouteOptimizer.stores (loaded = FALSE: None)
    routes,                 \* RouteOptimizer.routes
    r_summary,              \* RouteOptimizer.summary ({}: the empty dict)
    n_saves,                \* how many save_actions and save_routes calls so far
    in_flight,              \* cascade endpoint requests running side by side
    ret                     \* the last call: its name, arguments and return value

vars == << db_stores, db_inventory, waste_cascade_actions, carbon_impact, db_routes,
           ORTOOLS_AVAILABLE, stores, surplus_items, actions, summary,
           r_stores, routes, r_summary, n_saves, in_flight, ret >>

db == << db_stores, db_inventory, ORTOOLS_AVAILABLE >>
cascade_tables == << waste_cascade_actions, carbon_impact >>
cascade_self == << stores, surplus_items, actions, summary >>
router_self == << r_stores, routes, r_summary >>

None == [loaded |-> FALSE, rows |-> << >>]

\* the requests to GET /api/cascade/optimize followed side by side, and the
\* progress of one: idle, or inside save_actions at row k of the list it
\* iterates, about to run the INSERT named by stmt, or done
Requests == {1, 2}
Idle == [pc |-> "idle", batch |-> << >>, k |-> 0, stmt |-> "none"]
Loaded(table) == [loaded |-> TRUE, rows |-> table]

\* the state after construction of both optimizers, over a database whose
\* stores table is one of `tables`
InitIn(tables) ==
    /\ db_stores \in tables
    /\ db_inventory \in Snapshots
    /\ ORTOOLS_AVAILABLE \in BOOLEAN
    /\ waste_cascade_actions = << >>
    /\ carbon_impact = << >>
    /\ db_routes = << >>
    /\ stores = None
    /\ surplus_items = << >>
    /\ actions = << >>
    /\ summary = {}
    /\ r_stores = None
    /\ routes = << >>
    /\ r_summary = {}
    /\ n_saves = [actions |-> 0, routes |-> 0]
    /\ in_flight = [p \in Requests |-> Idle]
    /\ ret = [op |-> "none", args |-> << >>, value |-> << >>]

Init == InitIn(StoreTables)

\* ------------------------------------------- WasteCascadeOptimizer calls
ForecastDays == {1, 3}
MaxDistances == {5, 50}

\* load_data()
LoadData ==
    /\ stores' = Loaded(db_stores)
    /\ ret' = [op |-> "load_data", args |-> << >>, value |-> << >>]
    /\ UNCHANGED << db, in_flight, cascade_tables, db_routes, surplus_items, actions, summary,
                    router_self, n_saves >>

\* identify_surplus(forecast_days)
IdentifySurplus(forecast_days) ==
    \E out \in identify_surplus(db_inventory, db_stores, forecast_days) :
        /\ surplus_items' = IF out.found THEN out.surplus ELSE surplus_items
        /\ ret' = [op |-> "identify_surplus", args |-> <<forecast_days>>,
                   value |-> out.surplus]
        /\ UNCHANGED << db, in_flight, cascade_tables, db_routes, stores, actions, summary,
                        router_self, n_saves >>

\* optimize_cascade(max_redistribution_distance_km)
OptimizeCascade(max_redistribution_distance_km) ==
    LET table == IF stores.loaded THEN stores.rows ELSE db_stores
        outs == IF Len(surplus_items) = 0
                THEN identify_surplus(db_inventory, db_stores, 3)
                ELSE { [found |-> FALSE, surplus |-> << >>] }
    IN  \E out \in outs :
          LET items == IF out.found THEN out.surplus ELSE surplus_items
              run == CascadeLoop(items, table, 1, NewRun,
                                 max_redistribution_distance_km)
          IN  /\ stores' = Loaded(table)
              /\ surplus_items' = items
              /\ IF Len(items) = 0
                 THEN /\ UNCHANGED << actions, summary >>
                      /\ ret' = [op |-> "optimize_cascade",
                                 args |-> <<max_redistribution_distance_km>>,
                                 value |-> << >>]
                 ELSE /\ actions' = run.actions
                      /\ summary' = { CascadeSummary(run) }
                      /\ ret' = [op |-> "optimize_cascade",
                                 args |-> <<max_redistribution_distance_km>>,
                                 value |-> run.actions]
              /\ UNCHANGED << db, in_flight, cascade_tables, db_routes, router_self, n_saves >>

\* the rows save_actions inserts for one action
ActionRow(a) ==
    [source_store_id |-> a.source_store_id,
     destination_store_id |-> a.destination_store_id, product_id |-> a.product_id,
     quantity_kg |-> a.quantity_kg, cascade_tier |-> a.cascade_tier,
     carbon_saved_kg |-> a.carbon_saved_kg, cost_saved |-> a.cost_saved,
     status |-> "planned"]
\* a log entry that files every action under tier 1
ImpactRow_Tier1(a) ==
    [action_type |-> <<"cascade_tier", 1>>,
     food_saved_kg |-> a.quantity_kg, carbon_saved_kg |-> a.carbon_saved_kg,
     cost_saved |-> a.cost_saved, store_id |-> a.source_store_id]

\* the carbon_impact row save_actions inserts for one action
ImpactRow(a) ==
    [action_type |-> <<"cascade_tier", a.cascade_tier>>,
     food_saved_kg |-> a.quantity_kg, carbon_saved_kg |-> a.carbon_saved_kg,
     cost_saved |-> a.cost_saved, store_id |-> a.source_store_id]

\* save_actions()
SaveActions ==
    /\ n_saves.actions < MaxActionSaves
    /\ n_saves' = [n_saves EXCEPT !.actions = @ + 1]
    /\ waste_cascade_actions' =
           waste_cascade_actions \o [k \in 1..Len(actions) |-> ActionRow(actions[k])]
    /\ carbon_impact' =
           carbon_impact \o [k \in 1..Len(actions) |-> ImpactRow(actions[k])]
    /\ ret' = [op |-> "save_actions", args |-> << >>, value |-> << >>]
    /\ UNCHANGED << db, in_flight, db_routes, cascade_self, router_self >>

CascadeNext ==
    \/ LoadData
    \/ \E forecast_days \in ForecastDays : IdentifySurplus(forecast_days)
    \/ \E d \in MaxDistances : OptimizeCascade(d)
    \/ SaveActions

SpecCascade == Init /\ [][CascadeNext]_vars

\* ------------------------------------------------------- RouteOptimizer
VEHICLE_CAPACITY_KG == 2000
VEHICLE_SPEED_KMH == 40
MAX_ROUTE_TIME_MINUTES == 480

\* round(0.1 * distance_km * (load_kg / 1000), 2), in 1/100 kg CO2
calculate_transport_emissions(distance_km, load_kg) ==
    MulDivRound(load_kg, distance_km, KG * 100)

StoreOf(table, id) == CHOOSE st \in Rows(table) : st.store_id = id

\* ORDER BY cascade_tier, quantity_kg DESC
TaskBefore(a, b) ==
    \/ a.cascade_tier < b.cascade_tier
    \/ (a.cascade_tier = b.cascade_tier /\ a.quantity_kg > b.quantity_kg)

\* rows with equal keys keep their insertion order
RECURSIVE InsertTask(_, _)
InsertTask(sorted, t) ==
    IF sorted = << >> THEN <<t>>
    ELSE IF TaskBefore(t, Head(sorted)) THEN <<t>> \o sorted
    ELSE <<Head(sorted)>> \o InsertTask(Tail(sorted), t)

RECURSIVE SortTasks(_, _)
SortTasks(rows, k) ==
    IF k = 0 THEN << >> ELSE InsertTask(SortTasks(rows, k - 1), rows[k])

\* _get_delivery_tasks: the planned actions joined with their stores
get_delivery_tasks(ledger, table) ==
    LET ids == {st.store_id : st \in Rows(table)}
        joined == [k \in 1..Len(ledger) |->
                     [action_id |-> k,
                      source_store_id |-> ledger[k].source_store_id,
                      destination_store_id |-> ledger[k].destination_store_id,
                      quantity_kg |-> ledger[k].quantity_kg,
                      cascade_tier |-> ledger[k].cascade_tier,
                      status |-> ledger[k].status]]
        planned == SelectSeq(joined, LAMBDA t :
                       /\ t.status = "planned"
                       /\ t.source_store_id \in ids
                       /\ t.destination_store_id \in ids)
        sorted == SortTasks(planned, Len(planned))
    IN  [k \in 1..Len(sorted) |->
           [action_id |-> sorted[k].action_id,
            source_store_id |-> sorted[k].source_store_id,
            destination_store_id |-> sorted[k].destination_store_id,
            quantity_kg |-> sorted[k].quantity_kg,
            cascade_tier |-> sorted[k].cascade_tier,
            src |-> StoreOf(table, sorted[k].source_store_id),
            dst |-> StoreOf(table, sorted[k].destination_store_id),
            src_city |-> StoreOf(table, sorted[k].source_store_id).city]]

\* tasks["src_city"].unique(): in order of first appearance
RECURSIVE UniqueCities(_, _)
UniqueCities(tasks, seen) ==
    IF tasks = << >> THEN << >>
    ELSE IF Head(tasks).src_city \in seen THEN UniqueCities(Tail(tasks), seen)
    ELSE <<Head(tasks).src_city>>
           \o UniqueCities(Tail(tasks), seen \cup {Head(tasks).src_city})

Location(st, depot) ==
    [store_id |-> st.store_id, name |-> st.name, pos |-> st.pos, is_depot |-> depot]

AddLocation(locations, st) ==
    IF \E k \in 1..Len(locations) : locations[k].store_id = st.store_id
    THEN locations ELSE Append(locations, Location(st, FALSE))

\* the depot, then every source and destination in task order, once each
RECURSIVE CollectLocations(_, _)
CollectLocations(locations, tasks) ==
    IF tasks = << >> THEN locations
    ELSE CollectLocations(
             AddLocation(AddLocation(locations, Head(tasks).src), Head(tasks).dst),
             Tail(tasks))

\* tasks[tasks["destination_store_id"] == sid]["quantity_kg"].sum()
StopLoad(tasks, sid) ==
    SumSeq([k \in 1..Len(tasks) |->
              IF tasks[k].destination_store_id = sid THEN tasks[k].quantity_kg ELSE 0])

dist_matrix(locations, i, j) ==
    IF i = j THEN 0 ELSE haversine_distance(locations[i].pos, locations[j].pos)

\* the dict appended to routes; vehicle_id v stands for "V<v>"
Route(v, route_stops, route_distance, route_load, method) ==
    [vehicle_id |-> v, stops |-> route_stops,
     total_distance_km |-> route_distance,
     total_time_minutes |-> RoundDiv(route_distance * 60, VEHICLE_SPEED_KMH),
     total_load_kg |-> round1(route_load),
     carbon_emission_kg |-> calculate_transport_emissions(route_distance, route_load),
     num_stops |-> Len(route_stops), method |-> method]

\* ---- greedy nearest-neighbour
\* the while loop of one vehicle; g holds visited, current, route_stops (as
\* indices of locations), route_distance and route_load
RECURSIVE GreedyWalk(_, _, _)
GreedyWalk(locations, tasks, g) ==
    LET unvisited == {j \in 1..Len(locations) : j \notin g.visited}
    IN  IF unvisited = {} THEN g
        ELSE
          LET best_next == CHOOSE j \in unvisited : \A k \in unvisited :
                              \/ dist_matrix(locations, g.current, j)
                                   < dist_matrix(locations, g.current, k)
                              \/ /\ dist_matrix(locations, g.current, j)
                                      = dist_matrix(locations, g.current, k)
                                 /\ j <= k
              best_dist == dist_matrix(locations, g.current, best_next)
              stop_load == StopLoad(tasks, locations[best_next].store_id)
          IN  IF g.route_load + stop_load > VEHICLE_CAPACITY_KG * KG THEN g
              ELSE IF (g.route_distance + best_dist) * 60
                        > MAX_ROUTE_TIME_MINUTES * VEHICLE_SPEED_KMH THEN g
              ELSE GreedyWalk(locations, tasks,
                     [visited |-> g.visited \cup {best_next}, current |-> best_next,
                      route_stops |-> Append(g.route_stops, best_next),
                      route_distance |-> g.route_distance + best_dist,
                      route_load |-> g.route_load + stop_load])

\* a loop over vehicles in which each vehicle starts with only the depot visited
RECURSIVE GreedyVehicles_ForgetVisited(_, _, _, _, _, _)
GreedyVehicles_ForgetVisited(locations, tasks, num_vehicles, v, visited, done) ==
    IF v > num_vehicles THEN done
    ELSE
      LET g == GreedyWalk(locations, tasks,
                   [visited |-> {1}, current |-> 1, route_stops |-> <<1>>,
                    route_distance |-> 0, route_load |-> 0])
          route_distance == g.route_distance + dist_matrix(locations, g.current, 1)
          route == Route(v, [k \in 1..Len(g.route_stops) |-> locations[g.route_stops[k]]],
                         route_distance, g.route_load, "Greedy Nearest-Neighbor")
      IN  GreedyVehicles_ForgetVisited(locations, tasks, num_vehicles, v + 1, g.visited,
                         IF Len(g.route_stops) > 1 THEN Append(done, route) ELSE done)

\* the loop over vehicles, from vehicle v on
RECURSIVE GreedyVehicles(_, _, _, _, _, _)
GreedyVehicles(locations, tasks, num_vehicles, v, visited, done) ==
    IF v > num_vehicles THEN done
    ELSE
      LET g == GreedyWalk(locations, tasks,
                   [visited |-> visited, current |-> 1, route_stops |-> <<1>>,
                    route_distance |-> 0, route_load |-> 0])
          route_distance == g.route_distance + dist_matrix(locations, g.current, 1)
          route == Route(v, [k \in 1..Len(g.route_stops) |-> locations[g.route_stops[k]]],
                         route_distance, g.route_load, "Greedy Nearest-Neighbor")
      IN  GreedyVehicles(locations, tasks, num_vehicles, v + 1, g.visited,
                         IF Len(g.route_stops) > 1 THEN Append(done, route) ELSE done)

solve_greedy(locations, tasks, num_vehicles) ==
    GreedyVehicles(locations, tasks, num_vehicles, 1, {1}, << >>)

\* ---- the constrained solver
\* OR-Tools is a library outside the repository.  It is modelled by the routing
\* model _solve_vrp_ortools builds: every non-depot node is visited by exactly
\* one vehicle, each vehicle's demands sum to at most the capacity, each vehicle
\* drives at most 300 km, and the arc cost is minimised.  A plan gives each
\* vehicle the sequence of nodes it visits between leaving and re-entering the
\* depot (node 1).

\* demand_callback: int(...) of the quantity destined to the node, 0 at the depot
demand_callback(locations, tasks, node) ==
    IF node = 1 THEN 0 ELSE StopLoad(tasks, locations[node].store_id) \div KG

\* the distance driven from node `from` along path and back to the depot
RECURSIVE PathDistance(_, _, _)
PathDistance(locations, from, path) ==
    IF path = << >> THEN dist_matrix(locations, from, 1)
    ELSE dist_matrix(locations, from, Head(path))
           + PathDistance(locations, Head(path), Tail(path))

PathDemand(locations, tasks, path) ==
    SumSeq([k \in 1..Len(path) |-> demand_callback(locations, tasks, path[k])])

\* every way to give the nodes 2..n to num_vehicles vehicles, in every order
Plans(n, num_vehicles) ==
    LET m == n - 1
        cuts == {c \in [1..(num_vehicles - 1) -> 0..m] :
                   \A i, j \in 1..(num_vehicles - 1) : i < j => c[i] <= c[j]}
    IN  { [v \in 1..num_vehicles |->
             SubSeq(o, (IF v = 1 THEN 0 ELSE c[v - 1]) + 1,
                       IF v = num_vehicles THEN m ELSE c[v])] :
          o \in Orderings(2..n), c \in cuts }

\* the Capacity and Distance dimensions
Feasible(locations, tasks, plan) ==
    \A v \in 1..Len(plan) :
        /\ PathDemand(locations, tasks, plan[v]) <= VEHICLE_CAPACITY_KG
        /\ PathDistance(locations, 1, plan[v]) * 1000 <= 300 * 1000

PlanCost(locations, plan) ==
    SumSeq([v \in 1..Len(plan) |-> PathDistance(locations, 1, plan[v])])

\* what SolveWithParameters can return: the feasible plans of least arc cost
Solutions(locations, tasks, num_vehicles) ==
    LET ok == {p \in Plans(Len(locations), num_vehicles) : Feasible(locations, tasks, p)}
        costs == {PlanCost(locations, p) : p \in ok}
        least == CHOOSE c \in costs : \A d \in costs : c <= d
    IN  {p \in ok : PlanCost(locations, p) = least}

\* the load of a decoded route: the tasks destined to any of its stops
RouteLoad(tasks, route_stops) ==
    SumSeq([k \in 1..Len(tasks) |->
              IF \E i \in 1..Len(route_stops) :
                     route_stops[i].store_id = tasks[k].destination_store_id
              THEN tasks[k].quantity_kg ELSE 0])

\* the routes decoded from a solution, vehicle by vehicle
DecodeSolution(locations, tasks, plan) ==
    LET all == [v \in 1..Len(plan) |->
                  LET route_stops == <<locations[1]>>
                          \o [k \in 1..Len(plan[v]) |-> locations[plan[v][k]]]
                  IN  Route(v, route_stops, PathDistance(locations, 1, plan[v]),
                            RouteLoad(tasks, route_stops), "OR-Tools VRP")]
    IN  SelectSeq(all, LAMBDA r : r.num_stops > 1)

\* the route lists _solve_vrp_ortools can return
solve_vrp_ortools(locations, tasks, num_vehicles) ==
    LET found == Solutions(locations, tasks, num_vehicles)
    IN  IF found = {} THEN { << >> }
        ELSE {DecodeSolution(locations, tasks, p) : p \in found}

\* a dispatch that calls the constrained solver without asking whether the
\* library was imported
solve_city_routes_AlwaysSolver(table, tasks, num_vehicles, ortools) ==
    LET warehouses == OfType(table, "warehouse")
        depot == IF Len(warehouses) > 0 THEN warehouses[1] ELSE table[1]
        locations == CollectLocations(<<Location(depot, TRUE)>>, tasks)
    IN  IF Len(locations) < 2 THEN { << >> }
        ELSE IF Len(locations) > 2
        THEN solve_vrp_ortools(locations, tasks, num_vehicles)
        ELSE { solve_greedy(locations, tasks, num_vehicles) }

\* the route lists _solve_city_routes can return
solve_city_routes(table, tasks, num_vehicles, ortools) ==
    LET warehouses == OfType(table, "warehouse")
        depot == IF Len(warehouses) > 0 THEN warehouses[1] ELSE table[1]
        locations == CollectLocations(<<Location(depot, TRUE)>>, tasks)
    IN  IF Len(locations) < 2 THEN { << >> }
        ELSE IF ortools /\ Len(locations) > 2
        THEN solve_vrp_ortools(locations, tasks, num_vehicles)
        ELSE { solve_greedy(locations, tasks, num_vehicles) }

\* the loop over cities of optimize_routes: every list all_routes can end as
RECURSIVE CityLoop(_, _, _, _, _)
CityLoop(table, tasks, cities, num_vehicles, ortools) ==
    IF cities = << >> THEN { << >> }
    ELSE LET c == Head(cities)
             city_tasks == SelectSeq(tasks, LAMBDA t : t.src_city = c)
         IN  { first \o rest :
                 first \in solve_city_routes(table, city_tasks, num_vehicles, ortools),
                 rest \in CityLoop(table, tasks, Tail(cities), num_vehicles, ortools) }

\* ---- demo routes
\* np.random.uniform(200, 800): the values followed
DemoLoads == {200 * KG, 7999 * (KG \div 10)}

\* destinations.sample(n): every arrangement of n rows
Samples(destinations, n) ==
    { [k \in 1..n |-> destinations[f[k]]] :
        f \in {g \in [1..n -> 1..Len(destinations)] :
                 \A i, j \in 1..n : i # j => g[i] # g[j]} }

\* the distance from pos through the stops and back to the source
RECURSIVE DemoDistance(_, _, _)
DemoDistance(pos, stops, source) ==
    IF stops = << >> THEN haversine_distance(pos, source.pos)
    ELSE haversine_distance(pos, Head(stops).pos)
           + DemoDistance(Head(stops).pos, Tail(stops), source)

\* a demo route labelled like a greedy one
DemoRoute_Unmarked(v, source, sample, load) ==
    Route(v, <<Location(source, TRUE)>>
               \o [k \in 1..Len(sample) |-> Location(sample[k], FALSE)],
          DemoDistance(source.pos, sample, source), load, "Greedy Nearest-Neighbor")

\* the route of vehicle v from retailer `source` through the sampled stops
DemoRoute(v, source, sample, load) ==
    Route(v, <<Location(source, TRUE)>>
               \o [k \in 1..Len(sample) |-> Location(sample[k], FALSE)],
          DemoDistance(source.pos, sample, source), load, "Demo Route")

\* the loop over vehicles, from vehicle v on: every list it can end as
RECURSIVE DemoLoop(_, _, _, _)
DemoLoop(retailers, destinations, v, last) ==
    IF v > last THEN { << >> }
    ELSE { <<DemoRoute(v, retailers[v], sample, load)>> \o rest :
             sample \in Samples(destinations, Min(3, Len(destinations))),
             load \in DemoLoads,
             rest \in DemoLoop(retailers, destinations, v + 1, last) }

\* demo routes made for every retailer, whatever num_vehicles is
generate_demo_routes_EveryRetailer(table, city, num_vehicles) ==
    LET here == IF city # "" THEN InCity(table, city) ELSE table
        chosen == IF Len(here) = 0 THEN table ELSE here
        retailers == OfType(chosen, "retailer")
        destinations == OfType(chosen, "food_bank") \o OfType(chosen, "compost_facility")
    IN  DemoLoop(retailers, destinations, 1, Len(retailers))

\* the route lists _generate_demo_routes can return; "" is no city
generate_demo_routes(table, city, num_vehicles) ==
    LET here == IF city # "" THEN InCity(table, city) ELSE table
        chosen == IF Len(here) = 0 THEN table ELSE here
        retailers == OfType(chosen, "retailer")
        destinations == OfType(chosen, "food_bank") \o OfType(chosen, "compost_facility")
    IN  DemoLoop(retailers, destinations, 1, Min(num_vehicles, Len(retailers)))

\* the route lists optimize_routes can return
optimize_routes(ledger, table, city, num_vehicles, ortools) ==
    LET all_tasks == get_delivery_tasks(ledger, table)
        tasks == IF city # "" THEN SelectSeq(all_tasks, LAMBDA t : t.src_city = city)
                 ELSE all_tasks
        cities == IF city # "" THEN <<city>> ELSE UniqueCities(tasks, {})
    IN  IF Len(tasks) = 0 THEN generate_demo_routes(table, city, num_vehicles)
        ELSE CityLoop(table, tasks, cities, num_vehicles, ortools)

\* _compute_summary
compute_summary(rs) ==
    IF Len(rs) = 0 THEN {}
    ELSE { [num_routes |-> Len(rs),
            total_distance_km |-> SumSeq([k \in 1..Len(rs) |-> rs[k].total_distance_km]),
            total_time_minutes |-> SumSeq([k \in 1..Len(rs) |-> rs[k].total_time_minutes]),
            total_load_kg |-> SumSeq([k \in 1..Len(rs) |-> rs[k].total_load_kg]),
            total_co2_kg |-> SumSeq([k \in 1..Len(rs) |-> rs[k].carbon_emission_kg]),
            avg_stops_per_route |->
                RoundDiv(10 * SumSeq([k \in 1..Len(rs) |-> rs[k].num_stops]), Len(rs)),
            method |-> rs[1].method,
            estimated_distance_savings_pct |-> 25] }

\* --------------------------------------------------- RouteOptimizer calls
Cities == {"", "A", "B"}

\* optimize_routes(city, num_vehicles)
OptimizeRoutes(city, num_vehicles) ==
    LET table == IF r_stores.loaded THEN r_stores.rows ELSE db_stores
    IN  /\ n_saves.routes < MaxSaves
        /\ \E all_routes \in optimize_routes(waste_cascade_actions, table, city,
                                             num_vehicles, ORTOOLS_AVAILABLE) :
             /\ r_stores' = Loaded(table)
             /\ routes' = all_routes
             /\ r_summary' = compute_summary(all_routes)
             /\ ret' = [op |-> "optimize_routes", args |-> <<city, num_vehicles>>,
                        value |-> all_routes]
             /\ UNCHANGED << db, in_flight, cascade_tables, db_routes, cascade_self, n_saves >>

RouteRow(r) ==
    [vehicle_id |-> r.vehicle_id, total_distance_km |-> r.total_distance_km,
     total_time_minutes |-> r.total_time_minutes, total_load_kg |-> r.total_load_kg,
     stops_json |-> r.stops, carbon_emission_kg |-> r.carbon_emission_kg,
     status |-> "planned"]

\* a save that also marks every action of the ledger as dispatched
SaveRoutes_Dispatching ==
    /\ n_saves.routes < MaxSaves
    /\ n_saves' = [n_saves EXCEPT !.routes = @ + 1]
    /\ db_routes' = db_routes \o [k \in 1..Len(routes) |-> RouteRow(routes[k])]
    /\ waste_cascade_actions' =
           [k \in 1..Len(waste_cascade_actions) |->
              [waste_cascade_actions[k] EXCEPT !.status = "dispatched"]]
    /\ ret' = [op |-> "save_routes", args |-> << >>, value |-> << >>]
    /\ UNCHANGED << db, in_flight, carbon_impact, cascade_self, router_self >>

\* save_routes()
SaveRoutes ==
    /\ n_saves.routes < MaxSaves
    /\ n_saves' = [n_saves EXCEPT !.routes = @ + 1]
    /\ db_routes' = db_routes \o [k \in 1..Len(routes) |-> RouteRow(routes[k])]
    /\ ret' = [op |-> "save_routes", args |-> << >>, value |-> << >>]
    /\ UNCHANGED << db, in_flight, cascade_tables, cascade_self, router_self >>

\* ------------------------------------------------------------ API handler
\* run_cascade_optimization (GET /api/cascade/optimize): load_data(),
\* identify_surplus(forecast_days=3), optimize_cascade(), save_actions() on
\* the optimizer.  When identify_surplus found no surplus item, the call
\* optimize_cascade makes to it again reads the same tables and finds none.
EndpointRun ==
    /\ \E out \in identify_surplus(db_inventory, db_stores, 3) :
          LET items == IF out.found THEN out.surplus ELSE surplus_items
              run == CascadeLoop(items, db_stores, 1, NewRun, 50)
              saved == IF Len(items) = 0 THEN actions ELSE run.actions
          IN  /\ stores' = Loaded(db_stores)
              /\ surplus_items' = items
              /\ actions' = saved
              /\ summary' = IF Len(items) = 0 THEN summary ELSE { CascadeSummary(run) }
              /\ waste_cascade_actions' = waste_cascade_actions
                     \o [k \in 1..Len(saved) |-> ActionRow(saved[k])]
              /\ carbon_impact' = carbon_impact
                     \o [k \in 1..Len(saved) |-> ImpactRow(saved[k])]
              /\ ret' = [op |-> "run_cascade_optimization", args |-> << >>,
                         value |-> IF Len(items) = 0 THEN << >> ELSE run.actions]
    /\ n_saves' = [n_saves EXCEPT !.actions = @ + 1]
    /\ UNCHANGED << db, in_flight, db_routes, router_self >>

\* the endpoint, called up to MaxSaves times
RunCascade ==
    /\ n_saves.actions < MaxSaves
    /\ EndpointRun

\* ------------------------------------------------------- specifications
\* every call of either optimizer, in any order
Next ==
    \/ LoadData
    \/ \E forecast_days \in ForecastDays : IdentifySurplus(forecast_days)
    \/ \E d \in MaxDistances : OptimizeCascade(d)
    \/ SaveActions
    \/ \E city \in Cities, num_vehicles \in 1..MaxVehicles :
           OptimizeRoutes(city, num_vehicles)
    \/ SaveRoutes

\* routing runs over the ledger the cascade endpoint fills
RoutesNext ==
    \/ RunCascade
    \/ \E city \in Cities, num_vehicles \in 1..MaxVehicles :
           OptimizeRoutes(city, num_vehicles)
    \/ SaveRoutes

\* the deployments in which the surplus query finds no row
InitNoData ==
    /\ Init
    /\ SurplusQuery(db_inventory, db_stores, 3) = {}

SpecRoutes == Init /\ [][RoutesNext]_vars

SpecNoData == InitNoData /\ [][Next]_vars

\* ----------------------------------------------------------------- claims
\* the last call was optimize_cascade: ret.value holds the actions it returned
\* and surplus_items the items it processed
AfterCascade == ret.op = "optimize_cascade"

\* the actions of a list produced for one surplus item (source store + product)
ItemActions(acts, item) ==
    SelectSeq(acts, LAMBDA a : /\ a.source_store_id = item.store_id
                               /\ a.product_id = item.product_id)

TierActions(acts, tier) == SelectSeq(acts, LAMBDA a : a.cascade_tier = tier)

SumQuantity(acts) == SumSeq([k \in 1..Len(acts) |-> acts[k].quantity_kg])

Items == {surplus_items[k] : k \in 1..Len(surplus_items)}
Returned == {ret.value[k] : k \in 1..Len(ret.value)}

\* C1: after every optimize_cascade, for every surplus item, the quantities of
\* the actions produced for it (tiers 1, 2 and 3 together) sum to at most the
\* item's surplus_qty.
C1_Conservation ==
    AfterCascade =>
        \A item \in Items :
            SumQuantity(ItemActions(ret.value, item)) <= item.surplus_qty

\* whether `item` has exactly one peer retailer in its city within max_km, one
\* food bank in its city and one compost facility in its city
OneOfEach(table, item, max_km) ==
    /\ Cardinality({r \in Rows(table) :
           /\ r.store_type = "retailer" /\ r.store_id # item.store_id
           /\ r.city = item.city
           /\ haversine_distance(item.pos, r.pos) <= max_km}) = 1
    /\ Cardinality({r \in Rows(table) :
           r.store_type = "food_bank" /\ r.city = item.city}) = 1
    /\ Cardinality({r \in Rows(table) :
           r.store_type = "compost_facility" /\ r.city = item.city}) = 1

C2_Case(item) ==
    /\ AfterCascade
    /\ ~item.is_expiring_soon
    /\ item.surplus_qty = 100 * KG
    /\ OneOfEach(stores.rows, item, ret.args[1])

\* C2: a non-expiring item with 100 kg of surplus, one peer retailer in range,
\* one food bank and one compost facility in its city yields exactly three
\* actions: tier 1 of 30 kg saving 30 * unit_price * 0.5, tier 2 of 56 kg
\* saving 56 * unit_cost, tier 3 of 14 kg saving nothing; they sum to 100 kg.
C2_ThreeTiers ==
    \A item \in Items :
        C2_Case(item) =>
            LET acts == ItemActions(ret.value, item)
            IN  /\ Len(acts) = 3
                /\ acts[1].cascade_tier = 1 /\ acts[1].quantity_kg = 30 * KG
                /\ 2 * acts[1].cost_saved = 30 * item.unit_price
                /\ acts[2].cascade_tier = 2 /\ acts[2].quantity_kg = 56 * KG
                /\ acts[2].cost_saved = 56 * item.unit_cost
                /\ acts[3].cascade_tier = 3 /\ acts[3].quantity_kg = 14 * KG
                /\ acts[3].cost_saved = 0
                /\ SumQuantity(acts) = item.surplus_qty

C2_Witness == \E item \in Items : C2_Case(item) /\ Len(ItemActions(ret.value, item)) = 3

\* C3: an item expiring within 2 days never yields a tier-1 action.
C3_NoTier1WhenExpiring ==
    AfterCascade =>
        \A item \in Items :
            item.days_until_expiry <= 2 =>
                Len(TierActions(ItemActions(ret.value, item), 1)) = 0

\* an item at 1 day of expiry was processed with a peer retailer of its city in
\* range, and it was moved through the later tiers
C3_Witness ==
    /\ AfterCascade
    /\ \E item \in Items :
        /\ item.days_until_expiry = 1
        /\ \E r \in Rows(stores.rows) :
              /\ r.store_type = "retailer" /\ r.store_id # item.store_id
              /\ r.city = item.city
              /\ haversine_distance(item.pos, r.pos) <= ret.args[1]
        /\ Len(ItemActions(ret.value, item)) > 0

\* C4: every item identify_surplus returns with days_until_expiry <= 2 has
\* surplus_qty = quantity_on_hand, whatever the expected demand.
C4_ExpiryOverride ==
    ret.op = "identify_surplus" =>
        \A item \in Returned :
            item.days_until_expiry <= 2 => item.surplus_qty = item.quantity_on_hand

\* an expiring item was returned whose demand-adjusted residual differs
C4_Witness ==
    /\ ret.op = "identify_surplus"
    /\ \E item \in Returned :
        /\ item.days_until_expiry <= 2
        /\ item.daily_demand * ret.args[1] > 0
        /\ item.surplus_qty = item.quantity_on_hand

\* C5: every tier-3 action saves no cost, and its carbon_saved is (2.5 - 0.3)
\* times the quantity recorded on it.
C5_Tier3Impact ==
    AfterCascade =>
        \A a \in Returned :
            a.cascade_tier = 3 =>
                /\ a.cost_saved = 0
                /\ a.carbon_saved_kg * (KG \div 10)
                     = (LANDFILL_EMISSION_PER_KG - COMPOST_EMISSION_PER_KG) * a.quantity_kg

\* C9: every action optimize_cascade produces records a quantity above zero.
C9_PositiveQuantity ==
    AfterCascade => \A a \in Returned : a.quantity_kg > 0

\* an action of less than 2 kg was produced
C9_Witness ==
    AfterCascade /\ \E a \in Returned : a.quantity_kg > 0 /\ a.quantity_kg < 2 * KG

\* the last call was optimize_routes: ret.value holds the routes it returned
AfterRoutes == ret.op = "optimize_routes"

ReturnedRoutes == {ret.value[k] : k \in 1..Len(ret.value)}

\* the planned actions optimize_routes(city, ...) read, "" being every city
PendingTasks(city) ==
    LET all_tasks == get_delivery_tasks(waste_cascade_actions, db_stores)
    IN  IF city # "" THEN SelectSeq(all_tasks, LAMBDA t : t.src_city = city)
        ELSE all_tasks

\* C6: every route optimize_routes returns, whichever solver made it, has
\* total_load_kg at most the vehicle capacity.
C6_LoadWithinCapacity ==
    AfterRoutes =>
        \A r \in ReturnedRoutes : r.total_load_kg <= VEHICLE_CAPACITY_KG * KG

\* C7: every route optimize_routes returns has total_time_minutes, the time of
\* the whole distance with the leg back to the depot, at most 480.
C7_TimeWithinLimit ==
    AfterRoutes =>
        \A r \in ReturnedRoutes : r.total_time_minutes <= MAX_ROUTE_TIME_MINUTES

\* C8: for one city group with planned actions, the loads of the returned
\* routes sum to at most the total quantity of the group's planned actions.
C8_LoadsWithinPending ==
    (AfterRoutes /\ ret.args[1] # "" /\ Len(PendingTasks(ret.args[1])) > 0) =>
        SumSeq([k \in 1..Len(ret.value) |-> ret.value[k].total_load_kg])
          <= SumSeq([k \in 1..Len(PendingTasks(ret.args[1])) |->
                       PendingTasks(ret.args[1])[k].quantity_kg])

\* the stores the demo routes of a call for `city` are drawn from
DemoScope(city) ==
    LET here == IF city # "" THEN InCity(db_stores, city) ELSE db_stores
    IN  IF Len(here) = 0 THEN db_stores ELSE here

GroupLocations(city) ==
    LET warehouses == OfType(db_stores, "warehouse")
        depot == IF Len(warehouses) > 0 THEN warehouses[1] ELSE db_stores[1]
    IN  CollectLocations(<<Location(depot, TRUE)>>, PendingTasks(city))

\* the last call was optimize_routes for one city that has planned actions
AfterGroupRoutes ==
    AfterRoutes /\ ret.args[1] # "" /\ Len(PendingTasks(ret.args[1])) > 0

\* C11: a city group is solved by the constrained solver exactly when the
\* library is available and the group has more than 2 locations; otherwise
\* the greedy strategy solves it and its routes are returned.
C11_SolverDispatch ==
    AfterGroupRoutes =>
        \A r \in ReturnedRoutes :
            r.method = IF ORTOOLS_AVAILABLE /\ Len(GroupLocations(ret.args[1])) > 2
                       THEN "OR-Tools VRP" ELSE "Greedy Nearest-Neighbor"

\* the library is missing, the group has more than 2 locations, and greedy
\* routes came back
C11_Witness ==
    /\ AfterGroupRoutes
    /\ ~ORTOOLS_AVAILABLE
    /\ Len(GroupLocations(ret.args[1])) > 2
    /\ Len(ret.value) > 0
    /\ \A r \in ReturnedRoutes : r.method = "Greedy Nearest-Neighbor"

\* ---------------------------------------------------- failure inside a run
\* optimize_cascade(max_redistribution_distance_km) when an exception is raised
\* while the loop is at item k.  The method has no handler: the exception
\* leaves it, the local list `actions` and the local totals are dropped, and
\* the assignments to self.actions and self.summary that follow the loop are
\* not reached.  ret.value holds what the loop had computed for items 1..k-1.
OptimizeCascadeRaises(k, max_redistribution_distance_km) ==
    LET table == IF stores.loaded THEN stores.rows ELSE db_stores
        outs == IF Len(surplus_items) = 0
                THEN identify_surplus(db_inventory, db_stores, 3)
                ELSE { [found |-> FALSE, surplus |-> << >>] }
    IN  \E out \in outs :
          LET items == IF out.found THEN out.surplus ELSE surplus_items
              done == CascadeLoop(SubSeq(items, 1, k - 1), table, 1, NewRun,
                                  max_redistribution_distance_km)
          IN  /\ k \in 1..Len(items)
              /\ stores' = Loaded(table)
              /\ surplus_items' = items
              /\ ret' = [op |-> "optimize_cascade raised",
                         args |-> <<max_redistribution_distance_km>>,
                         value |-> done.actions]
              /\ UNCHANGED << actions, summary, db, in_flight, cascade_tables, db_routes,
                              router_self, n_saves >>

FaultNext ==
    \/ LoadData
    \/ \E forecast_days \in ForecastDays : IdentifySurplus(forecast_days)
    \/ \E d \in MaxDistances : OptimizeCascade(d)
    \/ \E k \in 1..MaxItems, d \in MaxDistances : OptimizeCascadeRaises(k, d)
    \/ SaveActions

SpecFaults == Init /\ [][FaultNext]_vars

\* C12: when optimize_cascade fails while processing item k, the actions it had
\* already computed for the items before k are the optimizer's actions
\* afterwards, and its summary is theirs.
C12_PartialStateKept ==
    ret.op = "optimize_cascade raised" =>
        /\ actions = ret.value
        /\ (Len(ret.value) > 0 => summary # {} /\
              \A sm \in summary : sm.total_actions = Len(ret.value))

\* ------------------------------------------------------------ the ledgers
\* one deployment without a warehouse, at most one inventory row, and every
\* call of either optimizer in any order
InitLedgers ==
    /\ Init
    /\ db_stores = BankDepot
    /\ Cardinality(db_inventory) <= 1

SpecLedgers == InitLedgers /\ [][Next]_vars

\* C13: every row of the action ledger has status planned, and the carbon-impact
\* log holds one entry per action row, in the same order, of action type
\* cascade_tier_{n} for the row's tier n and with the row's quantity, carbon,
\* cost and source store; so both tables have the same number of rows.
C13_OneImpactPerAction ==
    /\ Len(carbon_impact) = Len(waste_cascade_actions)
    /\ \A k \in 1..Len(waste_cascade_actions) :
         LET row == waste_cascade_actions[k]
             log == carbon_impact[k]
         IN  /\ row.status = "planned"
             /\ log.action_type = <<"cascade_tier", row.cascade_tier>>
             /\ log.food_saved_kg = row.quantity_kg
             /\ log.carbon_saved_kg = row.carbon_saved_kg
             /\ log.cost_saved = row.cost_saved
             /\ log.store_id = row.source_store_id

\* save_actions was called twice and the ledger holds rows of tiers 2 and 3
C13_Witness ==
    /\ n_saves.actions = 2
    /\ ret.op = "save_actions"
    /\ \E j, k \in 1..Len(waste_cascade_actions) :
         /\ waste_cascade_actions[j].cascade_tier = 2
         /\ waste_cascade_actions[k].cascade_tier = 3

IsPrefix(old, new) == Len(old) <= Len(new) /\ SubSeq(new, 1, Len(old)) = old

\* C14: no call changes or removes a row of the action ledger, of the
\* carbon-impact log or of the routes table: each step leaves the rows a table
\* had, in place and unchanged, and can only add rows after them.
C14_AppendOnly ==
    [][ /\ IsPrefix(waste_cascade_actions, waste_cascade_actions')
        /\ IsPrefix(carbon_impact, carbon_impact')
        /\ IsPrefix(db_routes, db_routes') ]_vars

\* routes were computed from planned actions and saved, and every action row
\* is still there and still planned
C14_Witness ==
    /\ ret.op = "save_routes"
    /\ Len(db_routes) > 0
    /\ Len(waste_cascade_actions) > 0
    /\ \E k \in 1..Len(routes) : routes[k].method # "Demo Route"
    /\ \A k \in 1..Len(waste_cascade_actions) :
         waste_cascade_actions[k].status = "planned"

\* C15: a route optimize_routes returns has method "Demo Route" exactly when
\* no planned action was available for the requested city filter; routes made
\* from planned actions never carry that method.
C15_DemoMarked ==
    AfterRoutes =>
        \A r \in ReturnedRoutes :
            (r.method = "Demo Route") <=> (Len(PendingTasks(ret.args[1])) = 0)

\* the ledger holds planned actions, none of them of the requested city, and a
\* demo route came back
C15_Witness ==
    /\ AfterRoutes
    /\ Len(PendingTasks("")) > 0
    /\ Len(PendingTasks(ret.args[1])) = 0
    /\ \E r \in ReturnedRoutes : r.method = "Demo Route"

\* --------------------------------------------------------- get_sankey_data
\* the location names of the model in the order sorted() gives strings
SortedNames == << "CF1", "CF2", "CF3", "FB1", "FB2", "FB3", "R1", "R2", "R3", "R4", "WH" >>

\* the key of an action in link_map
LinkKey(a) == << a.source_name, a.destination_name, a.cascade_tier >>

\* the keys of link_map in insertion order: each key where it first appears
RECURSIVE LinkKeys(_, _)
LinkKeys(acts, seen) ==
    IF acts = << >> THEN << >>
    ELSE IF LinkKey(Head(acts)) \in seen THEN LinkKeys(Tail(acts), seen)
    ELSE <<LinkKey(Head(acts))>>
           \o LinkKeys(Tail(acts), seen \cup {LinkKey(Head(acts))})

\* position of name in node_list, counted from 0
node_idx(node_list, name) ==
    (CHOOSE i \in 1..Len(node_list) : node_list[i] = name) - 1

\* link_map[key] after the loop
LinkQuantity(acts, key) ==
    SumSeq([k \in 1..Len(acts) |->
              IF LinkKey(acts[k]) = key THEN acts[k].quantity_kg ELSE 0])

\* one link per action, nothing summed
get_sankey_data_PerAction(acts) ==
    LET nodes == {acts[k].source_name : k \in 1..Len(acts)}
                   \cup {acts[k].destination_name : k \in 1..Len(acts)}
        node_list == SelectSeq(SortedNames, LAMBDA n : n \in nodes)
    IN  [nodes |-> node_list,
         links |-> [k \in 1..Len(acts) |->
                      [source |-> node_idx(node_list, acts[k].source_name),
                       target |-> node_idx(node_list, acts[k].destination_name),
                       value |-> round1(acts[k].quantity_kg),
                       tier |-> acts[k].cascade_tier]]]

\* get_sankey_data() on an optimizer whose self.actions is acts
get_sankey_data(acts) ==
    IF Len(acts) = 0 THEN [nodes |-> << >>, links |-> << >>]
    ELSE
      LET nodes == {acts[k].source_name : k \in 1..Len(acts)}
                     \cup {acts[k].destination_name : k \in 1..Len(acts)}
          node_list == SelectSeq(SortedNames, LAMBDA n : n \in nodes)
          keys == LinkKeys(acts, {})
      IN  [nodes |-> node_list,
           links |-> [k \in 1..Len(keys) |->
                        [source |-> node_idx(node_list, keys[k][1]),
                         target |-> node_idx(node_list, keys[k][2]),
                         value |-> round1(LinkQuantity(acts, keys[k])),
                         tier |-> keys[k][3]]]]

GetSankeyData ==
    /\ ret' = [op |-> "get_sankey_data", args |-> << >>,
               value |-> get_sankey_data(actions)]
    /\ UNCHANGED << db, in_flight, cascade_tables, db_routes, cascade_self, router_self, n_saves >>

SankeyNext ==
    \/ LoadData
    \/ \E forecast_days \in ForecastDays : IdentifySurplus(forecast_days)
    \/ \E d \in MaxDistances : OptimizeCascade(d)
    \/ SaveActions
    \/ GetSankeyData

SpecSankey == Init /\ [][SankeyNext]_vars

ActionSet == {actions[k] : k \in 1..Len(actions)}

\* C16: get_sankey_data returns one node per distinct name that is the source
\* or destination of an action, and one link per distinct (source,
\* destination, tier) whose value is the sum of the quantities of the actions
\* with that triple; every link's source and target are positions of the node
\* list, and the link values sum to the total quantity of the actions.
C16_Sankey ==
    ret.op = "get_sankey_data" =>
        LET nodes == ret.value.nodes
            links == ret.value.links
            names == {a.source_name : a \in ActionSet}
                       \cup {a.destination_name : a \in ActionSet}
            triples == {LinkKey(a) : a \in ActionSet}
        IN  /\ {nodes[i] : i \in 1..Len(nodes)} = names
            /\ Len(nodes) = Cardinality(names)
            /\ Len(links) = Cardinality(triples)
            /\ \A l \in 1..Len(links) :
                 /\ links[l].source \in 0..(Len(nodes) - 1)
                 /\ links[l].target \in 0..(Len(nodes) - 1)
                 /\ << nodes[links[l].source + 1], nodes[links[l].target + 1],
                       links[l].tier >> \in triples
                 /\ links[l].value =
                      LinkQuantity(actions, << nodes[links[l].source + 1],
                                               nodes[links[l].target + 1],
                                               links[l].tier >>)
            /\ \A t \in triples :
                 \E l \in 1..Len(links) :
                    t = << nodes[links[l].source + 1], nodes[links[l].target + 1],
                           links[l].tier >>
            /\ SumSeq([l \in 1..Len(links) |-> links[l].value]) = SumQuantity(actions)

\* the view was built from actions of which two share source, destination and
\* tier
C16_Witness ==
    /\ ret.op = "get_sankey_data"
    /\ \E j, k \in 1..Len(actions) : j # k /\ LinkKey(actions[j]) = LinkKey(actions[k])
    /\ Len(ret.value.links) < Len(actions)

\* ------------------------------------------------- the longest distances
\* stores half the Earth's circumference apart: a peer retailer of the same
\* city, and the only food bank and compost facility
Antipodes ==
    << Store(1, "R1", "retailer", "A", 0), Store(2, "R2", "retailer", "A", 20015),
       Store(6, "FB2", "food_bank", "B", 20015),
       Store(7, "CF2", "compost_facility", "B", 20015) >>

FarDistances == {50, 20015}

FarNext ==
    \/ LoadData
    \/ \E forecast_days \in ForecastDays : IdentifySurplus(forecast_days)
    \/ \E d \in FarDistances : OptimizeCascade(d)
    \/ SaveActions

SpecFar == InitIn({Antipodes, StdCity}) /\ [][FarNext]_vars

\* C17: every action optimize_cascade produces has carbon_saved >= 0 and
\* cost_saved >= 0, up to the longest distance two locations can have.
C17_NonNegativeSavings ==
    AfterCascade =>
        \A a \in Returned : a.carbon_saved_kg >= 0 /\ a.cost_saved >= 0

\* food of the category with the smallest factor was moved to a retailer and
\* to a food bank half the Earth's circumference away
C17_Witness ==
    /\ AfterCascade
    /\ \E a, b \in Returned :
         /\ a.category = "Vegetables" /\ a.cascade_tier = 1 /\ a.distance_km = 20015
         /\ b.category = "Vegetables" /\ b.cascade_tier = 2 /\ b.distance_km = 20015

SumCarbon(acts) == SumSeq([k \in 1..Len(acts) |-> acts[k].carbon_saved_kg])
SumCost(acts) == SumSeq([k \in 1..Len(acts) |-> acts[k].cost_saved])

\* C18: after optimize_cascade completes, the summary agrees with the returned
\* actions: total_actions is their number, tier_k_kg the sum of quantity_kg of
\* the tier-k actions, total_redistributed_kg the sum over all actions, and
\* the carbon and cost totals the sums of the actions' carbon_saved and
\* cost_saved.
C18_SummaryAgrees ==
    (AfterCascade /\ Len(ret.value) > 0) =>
        /\ summary # {}
        /\ \A sm \in summary :
             /\ sm.total_actions = Len(ret.value)
             /\ sm.tier_1_kg = SumQuantity(TierActions(ret.value, 1))
             /\ sm.tier_2_kg = SumQuantity(TierActions(ret.value, 2))
             /\ sm.tier_3_kg = SumQuantity(TierActions(ret.value, 3))
             /\ sm.total_redistributed_kg = SumQuantity(ret.value)
             /\ sm.total_carbon_saved_kg = SumCarbon(ret.value)
             /\ sm.total_cost_saved = SumCost(ret.value)

\* ------------------------------------------------------ several candidates
\* a city with two peer retailers in range of R1
TwoPeers ==
    << Store(1, "R1", "retailer", "A", 0), Store(2, "R2", "retailer", "A", 10),
       Store(8, "R3", "retailer", "A", 20), Store(3, "FB1", "food_bank", "A", 5),
       Store(4, "CF1", "compost_facility", "A", 8) >>

\* a city with two food banks, and one with none
TwoBanks ==
    << Store(1, "R1", "retailer", "A", 0), Store(6, "FB2", "food_bank", "B", 3),
       Store(3, "FB1", "food_bank", "A", 5), Store(11, "FB3", "food_bank", "A", 6),
       Store(9, "R4", "retailer", "B", 3), Store(2, "R2", "retailer", "C", 10) >>

SpecTiers ==
    InitIn({TwoPeers, TwoBanks, StdCity, Wide, FarBank}) /\ [][CascadeNext]_vars

\* the surplus of item left when its j-th action of the list acts was made
RemainingBefore(item, acts, j) ==
    item.surplus_qty - SumSeq([i \in 1..(j - 1) |-> acts[i].transfer_qty])

EligibleCompost(item) ==
    LET compost == OfType(stores.rows, "compost_facility")
        here == InCity(compost, item.city)
    IN  Rows(IF Len(here) = 0 THEN compost ELSE here)

\* C21: every tier-3 action goes to the compost facility nearest to the source
\* among the eligible ones: no eligible compost facility is strictly closer to
\* the source than the action's destination.
C21_NearestCompost ==
    AfterCascade =>
        \A item \in Items :
            \A a \in Rows(ItemActions(ret.value, item)) :
                a.cascade_tier = 3 =>
                    LET dest == StoreOf(stores.rows, a.destination_store_id)
                    IN  /\ dest \in EligibleCompost(item)
                        /\ \A c \in EligibleCompost(item) :
                             haversine_distance(item.pos, c.pos)
                               >= haversine_distance(item.pos, dest.pos)

\* the retailers tier 1 may use for item within max_km
Tier1Candidates(item, max_km) ==
    {r \in Rows(OfType(stores.rows, "retailer")) :
        /\ r.store_id # item.store_id
        /\ r.city = item.city
        /\ haversine_distance(item.pos, r.pos) <= max_km}

\* C22: fall-through.  An item without a tier-1 candidate offers its whole
\* surplus to tier 2, and one without any food bank passes all that tier 1
\* left to tier 3; when a compost facility exists, the quantities of the
\* item's actions sum to exactly its surplus_qty; when none exists anywhere,
\* no tier-3 action is made and the summary counts nothing under tier 3 nor in
\* the total beyond tiers 1 and 2.
C22_FallThrough ==
    AfterCascade =>
        \A item \in Items :
            LET acts == ItemActions(ret.value, item)
                banks == OfType(stores.rows, "food_bank")
                compost == OfType(stores.rows, "compost_facility")
            IN  /\ Tier1Candidates(item, ret.args[1]) = {} =>
                      /\ Len(TierActions(acts, 1)) = 0
                      /\ \A a \in Rows(TierActions(acts, 2)) :
                           a.transfer_qty = MulDivRound(item.surplus_qty, 8, 10)
                /\ Len(banks) = 0 =>
                      /\ Len(TierActions(acts, 2)) = 0
                      /\ \A j \in 1..Len(acts) :
                           acts[j].cascade_tier = 3 =>
                             acts[j].transfer_qty = RemainingBefore(item, acts, j)
                /\ Len(compost) > 0 => SumQuantity(acts) = item.surplus_qty
                /\ Len(compost) = 0 =>
                      /\ Len(TierActions(acts, 3)) = 0
                      /\ \A sm \in summary :
                           /\ sm.tier_3_kg = 0
                           /\ sm.total_redistributed_kg
                                = round1(SumSeq([k \in 1..Len(ret.value) |->
                                                   ret.value[k].transfer_qty]))

\* whether item a has a strictly lower urgency than item b under the formula
\* 0.4 * (1 - freshness_score) + 0.3 * [surplus_qty > 0]
\*   + 0.3 * (1 / (days_until_expiry + 1)),
\* compared exactly: both sides are the urgencies times
\* 3000 * (a.days + 1) * (b.days + 1)
StatedUrgencyLess(a, b) ==
    LET na == a.days_until_expiry + 1
        nb == b.days_until_expiry + 1
        fixed(r) == 12 * (100 - r.freshness_score)
                      + (IF r.surplus_qty > 0 THEN 900 ELSE 0)
    IN  fixed(a) * na * nb + 900 * nb < fixed(b) * na * nb + 900 * na

\* the surplus item an action was produced for
ItemOf(a) ==
    CHOOSE item \in Items :
        item.store_id = a.source_store_id /\ item.product_id = a.product_id

\* C23: identify_surplus returns the surplus items, and optimize_cascade
\* processes them, in descending order of the urgency
\* 0.4*(1 - freshness) + 0.3*[surplus_qty > 0] + 0.3/(days_until_expiry + 1):
\* no item comes before an item of strictly higher urgency.
C23_UrgencyOrder ==
    /\ ret.op = "identify_surplus" =>
          \A i, j \in 1..Len(ret.value) :
              i < j => ~StatedUrgencyLess(ret.value[i], ret.value[j])
    /\ AfterCascade =>
          \A i, j \in 1..Len(ret.value) :
              i < j => ~StatedUrgencyLess(ItemOf(ret.value[i]), ItemOf(ret.value[j]))

\* ---------------------------------------------------- the greedy strategy
\* the last call was optimize_routes for one city with planned actions, and the
\* greedy strategy solved the group
AfterGreedy ==
    /\ AfterGroupRoutes
    /\ ~(ORTOOLS_AVAILABLE /\ Len(GroupLocations(ret.args[1])) > 2)

\* the store ids of the stops of a route
StopIds(r) == {r.stops[k].store_id : k \in 1..Len(r.stops)}

\* the load and the distance a vehicle has after the first k stops of its route
LoadAt(tasks, r, k) ==
    SumSeq([i \in 1..k |-> IF i = 1 THEN 0 ELSE StopLoad(tasks, r.stops[i].store_id)])
DistanceAt(r, k) ==
    SumSeq([i \in 1..(k - 1) |-> haversine_distance(r.stops[i].pos, r.stops[i + 1].pos)])

\* whether a vehicle at `from` with the given load and distance may add location l
FeasibleNext(tasks, load, dist, from, l) ==
    /\ load + StopLoad(tasks, l.store_id) <= VEHICLE_CAPACITY_KG * KG
    /\ (dist + haversine_distance(from.pos, l.pos)) * 60
         <= MAX_ROUTE_TIME_MINUTES * VEHICLE_SPEED_KMH

\* C24: in the greedy strategy every move of a vehicle goes to the nearest of
\* the unvisited locations that are feasible for it (load within capacity and
\* time within the maximum), and a vehicle's route ends, or a vehicle stays at
\* the depot, only when no unvisited location is feasible for it.
C24_GreedyNearestFeasible ==
    AfterGreedy =>
        LET locs == GroupLocations(ret.args[1])
            tasks == PendingTasks(ret.args[1])
        IN  \A v \in 1..ret.args[2] :
              LET before == {locs[1].store_id} \cup
                              UNION {StopIds(r) : r \in {q \in ReturnedRoutes :
                                                          q.vehicle_id < v}}
                  mine == {r \in ReturnedRoutes : r.vehicle_id = v}
                  open(seen) == {l \in Rows(locs) : l.store_id \notin before \cup seen}
              IN  /\ mine = {} =>
                        \A l \in open({}) : ~FeasibleNext(tasks, 0, 0, locs[1], l)
                  /\ \A r \in mine :
                        \A k \in 1..Len(r.stops) :
                          \A l \in open({r.stops[i].store_id : i \in 1..k}) :
                            FeasibleNext(tasks, LoadAt(tasks, r, k), DistanceAt(r, k),
                                         r.stops[k], l) =>
                              /\ k < Len(r.stops)
                              /\ haversine_distance(r.stops[k].pos, r.stops[k + 1].pos)
                                   <= haversine_distance(r.stops[k].pos, l.pos)

\* the depot of the solvers: the first warehouse, or else the first store
DepotStore ==
    LET warehouses == OfType(db_stores, "warehouse")
    IN  IF Len(warehouses) > 0 THEN warehouses[1] ELSE db_stores[1]

\* C25: every route optimize_routes returns starts at the depot (its first stop
\* is flagged is_depot and is the first warehouse, or the first location when
\* there is no warehouse), counts the leg back to the depot in its total
\* distance, and has at least one stop beyond the depot.
C25_DepotRoutes ==
    AfterRoutes =>
        \A r \in ReturnedRoutes :
            /\ Len(r.stops) > 1
            /\ r.stops[1].is_depot
            /\ r.stops[1].store_id = DepotStore.store_id
            /\ r.total_distance_km =
                 DistanceAt(r, Len(r.stops))
                   + haversine_distance(r.stops[Len(r.stops)].pos, r.stops[1].pos)

\* --------------------------------------------------- several city groups
\* routing runs over a deployment whose retailers lie in two cities
SpecCities == InitIn({TwoBanks}) /\ [][RoutesNext]_vars

\* C26: a run of optimize_routes with n vehicles returns at most n routes, and
\* no two of them carry the same vehicle identifier, however many city groups
\* the planned actions fall into.
C26_AtMostNRoutes ==
    AfterRoutes =>
        /\ Len(ret.value) <= ret.args[2]
        /\ \A i, j \in 1..Len(ret.value) :
             i # j => ret.value[i].vehicle_id # ret.value[j].vehicle_id

\* ------------------------------------------- requests running side by side
\* Two requests to GET /api/cascade/optimize over the same inventory snapshot.
\* Each runs load_data, identify_surplus(3) and optimize_cascade() on the
\* process-wide optimizer, then save_actions, whose loop iterates the list
\* self.actions held when it was entered.  Every conn.execute(INSERT) is one
\* autocommitted statement, so the statements of the two requests interleave.

\* an INSERT that leaves out a row the table already holds
InsertRow_OncePerRow(table, row) ==
    IF row \in Rows(table) THEN table ELSE Append(table, row)

\* conn.execute("INSERT INTO ..."): the row goes after those the table holds
InsertRow(table, row) ==
    Append(table, row)

\* request p up to the entry of the loop of save_actions
BeginRequest(p) ==
    /\ in_flight[p].pc = "idle"
    /\ \E out \in identify_surplus(db_inventory, db_stores, 3) :
          LET items == IF out.found THEN out.surplus ELSE surplus_items
              run == CascadeLoop(items, db_stores, 1, NewRun, 50)
              saved == IF Len(items) = 0 THEN actions ELSE run.actions
          IN  /\ stores' = Loaded(db_stores)
              /\ surplus_items' = items
              /\ actions' = saved
              /\ summary' = IF Len(items) = 0 THEN summary ELSE { CascadeSummary(run) }
              /\ in_flight' = [in_flight EXCEPT ![p] =
                     IF Len(saved) = 0 THEN [Idle EXCEPT !.pc = "done"]
                     ELSE [pc |-> "saving", batch |-> saved, k |-> 1,
                           stmt |-> "waste_cascade_actions"]]
              /\ ret' = [op |-> "request", args |-> <<p>>,
                         value |-> IF Len(items) = 0 THEN << >> ELSE run.actions]
    /\ UNCHANGED << db, cascade_tables, db_routes, router_self, n_saves >>

\* the next INSERT of request p
InsertStep(p) ==
    LET f == in_flight[p]
        action == f.batch[f.k]
    IN  /\ f.pc = "saving"
        /\ \/ /\ f.stmt = "waste_cascade_actions"
              /\ waste_cascade_actions' = InsertRow(waste_cascade_actions, ActionRow(action))
              /\ in_flight' = [in_flight EXCEPT ![p].stmt = "carbon_impact"]
              /\ UNCHANGED carbon_impact
           \/ /\ f.stmt = "carbon_impact"
              /\ carbon_impact' = InsertRow(carbon_impact, ImpactRow(action))
              /\ in_flight' = [in_flight EXCEPT ![p] =
                     IF f.k = Len(f.batch) THEN [f EXCEPT !.pc = "done", !.stmt = "none"]
                     ELSE [f EXCEPT !.k = f.k + 1, !.stmt = "waste_cascade_actions"]]
              /\ UNCHANGED waste_cascade_actions
        /\ ret' = [op |-> "insert", args |-> <<p>>, value |-> << >>]
        /\ UNCHANGED << db, db_routes, cascade_self, router_self, n_saves >>

AllDone == \A p \in Requests : in_flight[p].pc = "done"

\* a routing run that follows the two requests
RoutesAfterRequests(city, num_vehicles) ==
    /\ AllDone
    /\ OptimizeRoutes(city, num_vehicles)

ConcurrentNext ==
    \/ \E p \in Requests : BeginRequest(p)
    \/ \E p \in Requests : InsertStep(p)
    \/ \E city \in Cities, num_vehicles \in 1..MaxVehicles :
           RoutesAfterRequests(city, num_vehicles)

InitConcurrent ==
    /\ InitIn({StdCity, BankDepot})
    /\ Cardinality(db_inventory) <= 1

SpecConcurrent == InitConcurrent /\ [][ConcurrentNext]_vars

Count(seq, x) == Cardinality({i \in 1..Len(seq) : seq[i] = x})

\* the quantity a list of actions sends to the stores of ids
BatchLoad(acts, ids) ==
    SumSeq([k \in 1..Len(acts) |->
              IF acts[k].destination_store_id \in ids THEN acts[k].quantity_kg ELSE 0])

\* the stops whose deliveries a route counts as its load
LoadedStops(r) ==
    IF r.method = "OR-Tools VRP" THEN StopIds(r)
    ELSE {r.stops[k].store_id : k \in 2..Len(r.stops)}

\* C27: when two cascade requests over the same snapshot have both finished,
\* in whatever order their INSERTs ran, the action ledger holds every action of
\* the snapshot twice, all planned; and a routing run that follows loads each
\* route with twice the quantity one batch sends to its stops.
C27_DuplicateBatches ==
    AllDone =>
        LET batch == in_flight[1].batch
            once == [k \in 1..Len(batch) |-> ActionRow(batch[k])]
        IN  /\ Len(waste_cascade_actions) = 2 * Len(batch)
            /\ \A row \in Rows(waste_cascade_actions) :
                 /\ row.status = "planned"
                 /\ Count(waste_cascade_actions, row) = 2 * Count(once, row)
            /\ AfterRoutes =>
                 \A r \in ReturnedRoutes :
                     r.method # "Demo Route" =>
                        r.total_load_kg = round1(2 * BatchLoad(batch, LoadedStops(r)))

\* both requests finished with their INSERTs interleaved row by row, and a
\* route was returned that carries more than one whole batch
C27_Witness ==
    /\ AllDone
    /\ AfterRoutes
    /\ Len(in_flight[1].batch) >= 2
    /\ waste_cascade_actions[1] = waste_cascade_actions[2]
    /\ \E r \in ReturnedRoutes :
         r.method # "Demo Route" /\ r.total_load_kg > SumQuantity(in_flight[1].batch)

\* ------------------------------------------------ the optimizer, reused
\* the inventory table receives the rows of a new latest date
NewSnapshot ==
    /\ db_inventory' \in Snapshots
    /\ db_inventory' # db_inventory
    /\ ret' = [op |-> "new snapshot", args |-> << >>, value |-> << >>]
    /\ UNCHANGED << db_stores, ORTOOLS_AVAILABLE, in_flight, cascade_tables, db_routes,
                    cascade_self, router_self, n_saves >>

\* the endpoint, called again on the process-wide optimizer
RepeatRun ==
    /\ n_saves.actions < MaxActionSaves
    /\ EndpointRun

ReuseNext ==
    \/ RepeatRun
    \/ NewSnapshot

SpecReuse == Init /\ [][ReuseNext]_vars

\* identify_surplus(3) finds no inventory row or keeps no surplus item
NoSurplusFound ==
    \A out \in identify_surplus(db_inventory, db_stores, 3) : Len(out.surplus) = 0

\* C28: on the reused optimizer, a cascade run whose surplus identification
\* finds no inventory row or no surplus item returns no actions, leaves an
\* empty summary and appends nothing to the action ledger or the impact log,
\* whatever the runs before it produced.
C28_FreshRuns ==
    [][ (n_saves'.actions = n_saves.actions + 1 /\ NoSurplusFound) =>
           /\ ret'.value = << >>
           /\ summary' = {}
           /\ waste_cascade_actions' = waste_cascade_actions
           /\ carbon_impact' = carbon_impact ]_vars

\* C29: in a city group solved by the greedy strategy, no location other than
\* the depot is a stop of two routes or twice a stop of one route, and the
\* depot is a stop only at the head of a route.
C29_GreedyVisitsOnce ==
    AfterGreedy =>
        \A i, j \in 1..Len(ret.value) :
            \A k \in 2..Len(ret.value[i].stops), l \in 2..Len(ret.value[j].stops) :
                /\ ~ret.value[i].stops[k].is_depot
                /\ ret.value[i].stops[k].store_id # DepotStore.store_id
                /\ (i # j \/ k # l) =>
                      ret.value[i].stops[k].store_id # ret.value[j].stops[l].store_id

\* two vehicles were asked for and the greedy strategy gave each a route, one
\* of them with two stops beyond the depot
C29_Witness ==
    /\ AfterGreedy
    /\ ret.args[2] = 2
    /\ Len(ret.value) = 2
    /\ \E i \in 1..Len(ret.value) : Len(ret.value[i].stops) > 2

\* C30: pickup precedes delivery.  For every planned action of the call whose
\* destination is a stop of a returned route, the action's source is a stop of
\* the same route, earlier in the stop sequence.
C30_PickupBeforeDelivery ==
    AfterRoutes =>
        \A t \in Rows(PendingTasks(ret.args[1])), r \in ReturnedRoutes :
            \A k \in 1..Len(r.stops) :
                r.stops[k].store_id = t.destination_store_id =>
                    \E j \in 1..(k - 1) : r.stops[j].store_id = t.source_store_id

====
